---- MODULE Spec2Model ----
(***************************************************************************)
(* Model of homework.py: a single-process bot that polls the homework      *)
(* review API, validates the payload, formats the status of the first      *)
(* submission and relays it to a chat, with in-memory de-duplication of    *)
(* statuses and error texts.                                               *)
(*                                                                         *)
(* Strings of the source that are written in Cyrillic are transliterated   *)
(* to ASCII; a text is a sequence of parts, one part per literal piece or  *)
(* interpolated value of the source's f-string.                            *)
(***************************************************************************)
EXTENDS Naturals, Sequences, FiniteSets, TLC

\* ------------------------------------------------------------------ bounds
\* cycles of the polling loop that are explored
MaxCycles == 3
\* longest 'homeworks' list in a payload handed to the pure functions
MaxHomeworks == 2
\* largest size of a non-list container found under 'homeworks'
MaxOtherLen == 1

\* ------------------------------------------------------- program constants
TELEGRAM_RETRY_TIME == 600

\* Python's None, and the marker of a key that a dict does not have
NoneVal == "<None>"
Absent == "<absent>"

HOMEWORK_VERDICTS ==
    [ approved  |-> "Rabota proverena: revyueru vsyo ponravilos. Ura!",
      reviewing |-> "Rabota vzyata na proverku revyuerom.",
      rejected  |-> "Rabota proverena: u revyuera est zamechaniya." ]

\* ------------------------------------------------------------- exceptions
\* An exception value: its class, str() of its argument, and the function
\* whose raise statement (or whose failing expression) produced it.
NoExc == [cls |-> "none", text |-> <<>>, raisedBy |-> "none"]

Raise(cls, text, by) == [cls |-> cls, text |-> text, raisedBy |-> by]

\* Base classes of the classes of the repository's exceptions module.
RepoExceptionParent ==
    [ CheckResponseException        |-> "Exception",
      IncorrectAPIResponseException |-> "Exception",
      MissingRequiredTokenException |-> "Exception" ]

\* Base classes of the built-in and library exception classes that occur.
BuiltinParent ==
    [ Exception      |-> "BaseException",
      ValueError     |-> "Exception",
      TypeError      |-> "Exception",
      AttributeError |-> "Exception",
      LookupError    |-> "Exception",
      KeyError       |-> "LookupError",
      TelegramError  |-> "Exception" ]

ExcParent(cls) ==
    IF cls \in DOMAIN RepoExceptionParent THEN RepoExceptionParent[cls]
    ELSE IF cls \in DOMAIN BuiltinParent THEN BuiltinParent[cls]
    ELSE "none"

RECURSIVE IsSubclass(_, _)
IsSubclass(cls, base) ==
    IF cls = base THEN TRUE
    ELSE IF ExcParent(cls) = "none" THEN FALSE
    ELSE IsSubclass(ExcParent(cls), base)

\* 'except base:' matches the raised exception
Catches(base, exc) == exc # NoExc /\ IsSubclass(exc.cls, base)

\* str(error): KeyError shows the repr of its argument, the others the text
PyStr(exc) ==
    IF exc.cls = "KeyError" THEN <<"'">> \o exc.text \o <<"'">> ELSE exc.text

\* ---------------------------------------------------------- JSON payloads
\* A decoded JSON value of the kinds the code distinguishes.
\*   t = "dict" : has = the key 'homeworks' is present, hw = its value
\*   t = "list" / "number" / "null" / "str" : not a keyed mapping
\* The value under 'homeworks':
\*   t = "list" with items; "dict" / "str" with n entries; "number"; "null"
\* A submission record: a dict with optional name and status, or a number.
Names == {Absent, "hw1"}
Statuses == {Absent, "approved", "reviewing", "rejected", "unknown"}

Submission(name, status) == [t |-> "dict", name |-> name, status |-> status]

Items ==
    {Submission(n, s) : n \in Names, s \in Statuses}
        \cup {[t |-> "number", name |-> Absent, status |-> Absent]}

RECURSIVE SeqsUpTo(_, _)
SeqsUpTo(S, n) ==
    IF n = 0 THEN {<<>>}
    ELSE LET shorter == SeqsUpTo(S, n - 1)
         IN  shorter \cup {Append(q, x) : q \in {r \in shorter : Len(r) = n - 1}, x \in S}

HwList(items) == [t |-> "list", n |-> 0, items |-> items]
HwOther(t, n) == [t |-> t, n |-> n, items |-> <<>>]
HwNone == HwOther("none", 0)

OtherHwVals ==
    {HwOther("number", 0), HwOther("null", 0)}
        \cup {HwOther(t, n) : t \in {"dict", "str"}, n \in 0..MaxOtherLen}

Dict(hw) == [t |-> "dict", has |-> TRUE, hw |-> hw]
DictWithoutKey == [t |-> "dict", has |-> FALSE, hw |-> HwNone]
NonDict(t) == [t |-> t, has |-> FALSE, hw |-> HwNone]
NonDicts == {NonDict(t) : t \in {"list", "number", "null", "str"}}

NoPayload == NonDict("none")

\* every payload handed to check_response on its own
AllPayloads ==
    NonDicts \cup {DictWithoutKey}
        \cup {Dict(v) : v \in OtherHwVals}
        \cup {Dict(HwList(q)) : q \in SeqsUpTo(Items, MaxHomeworks)}

\* The payloads the API returns to the loop, one or two for each path of the
\* loop body: the loop reads homeworks[0] only, and the name only when it
\* formats a changed status.
LoopItems ==
    {Submission("hw1", s) : s \in Statuses}
        \cup {Submission(Absent, "reviewing"),
              [t |-> "number", name |-> Absent, status |-> Absent]}

LoopPayloads ==
    {NonDict("list"), NonDict("null"), DictWithoutKey,
     Dict(HwOther("number", 0)), Dict(HwOther("dict", MaxOtherLen)),
     Dict(HwList(<<>>))}
        \cup {Dict(HwList(<<i>>)) : i \in LoopItems}

\* len(x) for the values that have a length
PyLen(v) == IF v.t = "list" THEN Len(v.items) ELSE v.n

\* ------------------------------------------------------------ check_response
Ok(value) == [exc |-> NoExc, value |-> value]
Fail(exc) == [exc |-> exc, value |-> <<>>]

check_response_noEmptyCheck(response) ==
    IF response.t # "dict"
    THEN Fail(Raise("TypeError", <<"subscript of ", response.t>>, "check_response"))
    ELSE IF ~response.has
    THEN Fail(Raise("CheckResponseException",
                    <<"Oshibka dostupa po klyuchu homeworks: ", "'homeworks'">>,
                    "check_response"))
    ELSE IF response.hw.t \in {"number", "null"}
    THEN Fail(Raise("TypeError", <<"no len() for ", response.hw.t>>, "check_response"))
    ELSE IF response.hw.t # "list"
    THEN Fail(Raise("CheckResponseException",
                    <<"V otvete API domashki predstavleny ne spiskom">>,
                    "check_response"))
    ELSE Ok(response.hw.items)

check_response(response) ==
    \* response['homeworks'] on a value that is not a dict: TypeError
    IF response.t # "dict"
    THEN Fail(Raise("TypeError", <<"subscript of ", response.t>>, "check_response"))
    \* KeyError is turned into CheckResponseException
    ELSE IF ~response.has
    THEN Fail(Raise("CheckResponseException",
                    <<"Oshibka dostupa po klyuchu homeworks: ", "'homeworks'">>,
                    "check_response"))
    \* len() of a number or of None: TypeError, before the isinstance test
    ELSE IF response.hw.t \in {"number", "null"}
    THEN Fail(Raise("TypeError", <<"no len() for ", response.hw.t>>, "check_response"))
    ELSE IF PyLen(response.hw) = 0
    THEN Fail(Raise("CheckResponseException",
                    <<"Za poslednee vremya net domashek">>, "check_response"))
    ELSE IF response.hw.t # "list"
    THEN Fail(Raise("CheckResponseException",
                    <<"V otvete API domashki predstavleny ne spiskom">>,
                    "check_response"))
    ELSE Ok(response.hw.items)

\* -------------------------------------------------------------- parse_status
parse_status_noStatusCheck(homework) ==
    IF homework.name = Absent
    THEN Fail(Raise("KeyError",
                    <<"Otsutstvuet klyuch \"homework_name\" v otvete API">>,
                    "parse_status"))
    ELSE IF homework.status = Absent
    THEN Fail(Raise("Exception",
                    <<"Otsutstvuet klyuch \"status\" v otvete API">>, "parse_status"))
    ELSE Ok(<<"Izmenilsya status proverki raboty \"", homework.name, "\". ",
              IF homework.status \in DOMAIN HOMEWORK_VERDICTS
              THEN HOMEWORK_VERDICTS[homework.status]
              ELSE HOMEWORK_VERDICTS["reviewing"]>>)

parse_status(homework) ==
    IF homework.name = Absent
    THEN Fail(Raise("KeyError",
                    <<"Otsutstvuet klyuch \"homework_name\" v otvete API">>,
                    "parse_status"))
    ELSE IF homework.status = Absent
    THEN Fail(Raise("Exception",
                    <<"Otsutstvuet klyuch \"status\" v otvete API">>, "parse_status"))
    ELSE IF homework.status \notin DOMAIN HOMEWORK_VERDICTS
    THEN Fail(Raise("Exception",
                    <<"Neizvestnyy status raboty: ", homework.status>>,
                    "parse_status"))
    ELSE Ok(<<"Izmenilsya status proverki raboty \"", homework.name, "\". ",
              HOMEWORK_VERDICTS[homework.status]>>)

\* -------------------------------------------------------------- check_tokens
TokenValues == {NoneVal, "set"}

Environments ==
    [practicum_token : TokenValues, telegram_token : TokenValues,
     telegram_chat_id : TokenValues]

check_tokens_skipsChatId(tokens) ==
    /\ tokens.practicum_token # NoneVal
    /\ tokens.telegram_token # NoneVal

check_tokens(tokens) ==
    \A key \in {"practicum_token", "telegram_token", "telegram_chat_id"} :
        tokens[key] # NoneVal

\* The module object 'time' as main finds it.  The standard library's time
\* has no attribute 'timedelta' (has_timedelta = FALSE), so the call raises
\* AttributeError; a time module that provides one yields a zero offset.
TimeModules ==
    {[has_timedelta |-> FALSE, value |-> 0], [has_timedelta |-> TRUE, value |-> 0]}

\* -------------------------------------------------------------- send_message
ChannelOutcomes == {"ok", "TelegramError"}

send_message_propagates(channel, message) ==
    [exc |-> IF channel = "ok" THEN NoExc
             ELSE Raise("TelegramError", <<"channel failure">>, "send_message"),
     delivered |-> channel = "ok"]

\* the TelegramError of bot.send_message is logged and swallowed
send_message(channel, message) ==
    [exc |-> NoExc, delivered |-> channel = "ok"]

SendRec(kind, status, text, sm) ==
    [kind |-> kind, status |-> status, text |-> text, delivered |-> sm.delivered]

\* ------------------------------------------------------------- get_api_answer
TransportErrors == {"ConnectionError", "Timeout"}
ErrorStatusCodes == {404, 500}
HTTP_OK == 200

HttpReply(transport, code, json, body) ==
    [transport |-> transport, status_code |-> code, json |-> json, body |-> body]

\* what requests.get does on one call: fails, or answers with a status code
\* and a body that is JSON or not
HttpOutcomes ==
    {HttpReply(e, 0, FALSE, NoPayload) : e \in TransportErrors}
        \cup {HttpReply("ok", c, TRUE, NoPayload) : c \in ErrorStatusCodes}
        \cup {HttpReply("ok", HTTP_OK, FALSE, NoPayload)}
        \cup {HttpReply("ok", HTTP_OK, TRUE, p) : p \in LoopPayloads}

get_api_answer(current_timestamp, http) ==
    IF http.transport # "ok"
    THEN Fail(Raise("Exception",
                    <<"Oshibka pri zaprose k osnovnomu API: ", http.transport>>,
                    "get_api_answer"))
    ELSE IF http.status_code # HTTP_OK
    THEN Fail(Raise("Exception", <<"Oshibka ", ToString(http.status_code)>>,
                    "get_api_answer"))
    ELSE IF ~http.json
    THEN Fail(Raise("ValueError", <<"Oshibka parsinga otveta iz formata json">>,
                    "get_api_answer"))
    ELSE Ok(http.body)

\* ------------------------------------------------------------------ the loop
NoneErr == <<NoneVal>>

StatusChanged_always(hw_status, previous_status_) == TRUE

StatusChanged_vsNone(hw_status, previous_status_) == hw_status # NoneVal

StatusChanged_inverted(hw_status, previous_status_) == hw_status = previous_status_

\* line 156: hw_status != previous_status
StatusChanged(hw_status, previous_status_) == hw_status # previous_status_

ErrorChanged_always(previous_error_, text) == TRUE

\* line 167: previous_error != str(error)
ErrorChanged(previous_error_, text) == previous_error_ # text

GetStatus_defaultEmpty(homework) ==
    IF homework.status = Absent THEN "" ELSE homework.status

\* dict.get('status'): None when the key is missing
GetStatus(homework) == IF homework.status = Absent THEN NoneVal ELSE homework.status

TryBody_recordOnDelivery(response_, st, ch) ==
    LET cr == check_response(response_) IN
    IF cr.exc # NoExc
    THEN [previous_status |-> st, sends |-> <<>>, raised |-> cr.exc]
    ELSE LET first == cr.value[1] IN
    IF first.t # "dict"
    THEN [previous_status |-> st, sends |-> <<>>,
          raised |-> Raise("AttributeError", <<"no attribute 'get'">>, "main")]
    ELSE LET hw_status == GetStatus(first) IN
    IF ~StatusChanged(hw_status, st)
    THEN [previous_status |-> st, sends |-> <<>>, raised |-> NoExc]
    ELSE LET ps == parse_status(first) IN
    IF ps.exc # NoExc
    THEN [previous_status |-> hw_status, sends |-> <<>>, raised |-> ps.exc]
    ELSE LET sm == send_message(ch, ps.value) IN
         [previous_status |-> IF sm.delivered THEN hw_status ELSE st,
          sends |-> <<SendRec("status", hw_status, ps.value, sm)>>,
          raised |-> sm.exc]

TryBody_assignAfterFormat(response_, st, ch) ==
    LET cr == check_response(response_) IN
    IF cr.exc # NoExc
    THEN [previous_status |-> st, sends |-> <<>>, raised |-> cr.exc]
    ELSE LET first == cr.value[1] IN
    IF first.t # "dict"
    THEN [previous_status |-> st, sends |-> <<>>,
          raised |-> Raise("AttributeError", <<"no attribute 'get'">>, "main")]
    ELSE LET hw_status == GetStatus(first) IN
    IF ~StatusChanged(hw_status, st)
    THEN [previous_status |-> st, sends |-> <<>>, raised |-> NoExc]
    ELSE LET ps == parse_status(first) IN
    IF ps.exc # NoExc
    THEN [previous_status |-> st, sends |-> <<>>, raised |-> ps.exc]
    ELSE LET sm == send_message(ch, ps.value) IN
         [previous_status |-> hw_status,
          sends |-> <<SendRec("status", hw_status, ps.value, sm)>>,
          raised |-> sm.exc]

\* The body of the second try block (lines 154-163).  Yields the value of
\* previous_status afterwards, the sends attempted, and the exception that
\* left the block (NoExc when the block ran to its sleep).
TryBody(response_, st, ch) ==
    LET cr == check_response(response_) IN
    IF cr.exc # NoExc
    THEN [previous_status |-> st, sends |-> <<>>, raised |-> cr.exc]
    ELSE LET first == cr.value[1] IN
    IF first.t # "dict"
    THEN [previous_status |-> st, sends |-> <<>>,
          raised |-> Raise("AttributeError", <<"no attribute 'get'">>, "main")]
    ELSE LET hw_status == GetStatus(first) IN
    IF ~StatusChanged(hw_status, st)
    THEN [previous_status |-> st, sends |-> <<>>, raised |-> NoExc]
    ELSE LET ps == parse_status(first) IN
    IF ps.exc # NoExc
    THEN [previous_status |-> hw_status, sends |-> <<>>, raised |-> ps.exc]
    ELSE LET sm == send_message(ch, ps.value) IN
         [previous_status |-> hw_status,
          sends |-> <<SendRec("status", hw_status, ps.value, sm)>>,
          raised |-> sm.exc]

HandleError_noRecord(error, st, perr, sends, ch) ==
    IF ~Catches("Exception", error)
    THEN [previous_status |-> st, previous_error |-> perr, sends |-> sends,
          caught |-> NoExc, uncaught |-> error]
    ELSE LET message == <<"Sboy v rabote programmy: ">> \o PyStr(error)
             changed == ErrorChanged(perr, PyStr(error))
             sm      == send_message(ch, message)
         IN  [previous_status |-> st,
              previous_error  |-> perr,
              sends    |-> IF changed
                           THEN Append(sends, SendRec("error", NoneVal, message, sm))
                           ELSE sends,
              caught   |-> error,
              uncaught |-> IF changed THEN sm.exc ELSE NoExc]

\* The handler 'except Exception as error' (lines 165-171).
HandleError(error, st, perr, sends, ch) ==
    IF ~Catches("Exception", error)
    THEN [previous_status |-> st, previous_error |-> perr, sends |-> sends,
          caught |-> NoExc, uncaught |-> error]
    ELSE LET message == <<"Sboy v rabote programmy: ">> \o PyStr(error)
             changed == ErrorChanged(perr, PyStr(error))
             sm      == send_message(ch, message)
         IN  [previous_status |-> st,
              previous_error  |-> IF changed THEN PyStr(error) ELSE perr,
              sends    |-> IF changed
                           THEN Append(sends, SendRec("error", NoneVal, message, sm))
                           ELSE sends,
              caught   |-> error,
              uncaught |-> IF changed THEN sm.exc ELSE NoExc]

CycleBody_clearsError(response_, st, perr, ch1, ch2) ==
    LET t == TryBody(response_, st, ch1) IN
    IF t.raised = NoExc
    THEN [previous_status |-> t.previous_status, previous_error |-> NoneErr,
          sends |-> t.sends, caught |-> NoExc, uncaught |-> NoExc]
    ELSE HandleError(t.raised, t.previous_status, perr, t.sends, ch2)

\* try block and handler together (lines 153-171)
CycleBody(response_, st, perr, ch1, ch2) ==
    LET t == TryBody(response_, st, ch1) IN
    IF t.raised = NoExc
    THEN [previous_status |-> t.previous_status, previous_error |-> perr,
          sends |-> t.sends, caught |-> NoExc, uncaught |-> NoExc]
    ELSE HandleError(t.raised, t.previous_status, perr, t.sends, ch2)

\* --------------------------------------------------------------------- state
VARIABLES
    pc,                \* position of main
    tokens,            \* PRACTICUM_TOKEN, TELEGRAM_TOKEN, TELEGRAM_CHAT_ID
    time_module,       \* the module 'time' of the process
    current_timestamp, \* main's locals
    previous_status,
    previous_error,
    response,
    exitError,         \* the exception that left main (NoExc while running)
    cycle,             \* calls of get_api_answer so far
    sent,              \* every send attempted in the run, in order
    prev,              \* record of the last finished cycle
    cur,               \* record of the cycle under way
    fn                 \* argument and result of a pure function applied alone

vars == <<pc, tokens, time_module, current_timestamp, previous_status,
          previous_error, response, exitError, cycle, sent, prev, cur, fn>>

NoCycle ==
    [fetch |-> "none", from_date |-> 0, fetchExc |-> NoExc,
     response |-> NoPayload, processed |-> FALSE, caught |-> NoExc, sends |-> <<>>, slept |-> 0,
     statusBefore |-> NoneVal, errorBefore |-> NoneErr]

FnIdle == [op |-> "none", arg |-> NoPayload, done |-> FALSE, result |-> Ok(<<>>)]

Init ==
    /\ pc = "start"
    /\ tokens \in Environments
    /\ time_module \in TimeModules
    /\ current_timestamp = 0
    /\ previous_status = NoneVal
    /\ previous_error = NoneErr
    /\ response = NoPayload
    /\ exitError = NoExc
    /\ cycle = 0
    /\ sent = <<>>
    /\ prev = NoCycle
    /\ cur = NoCycle
    /\ fn = FnIdle

\* lines 133-136: a credential is missing
StartupMissingToken ==
    /\ pc = "start"
    /\ ~check_tokens(tokens)
    /\ pc' = "terminated"
    /\ exitError' = Raise("MissingRequiredTokenException",
                          <<"Otsutstvuet neobhodimaya peremennaya sredy">>, "main")
    /\ UNCHANGED <<tokens, time_module, current_timestamp, previous_status,
                   previous_error, response, cycle, sent, prev, cur, fn>>

\* line 139: time.timedelta does not exist
StartupTimedeltaFails ==
    /\ pc = "start"
    /\ check_tokens(tokens)
    /\ ~time_module.has_timedelta
    /\ pc' = "terminated"
    /\ exitError' = Raise("AttributeError",
                          <<"module 'time' has no attribute 'timedelta'">>, "main")
    /\ UNCHANGED <<tokens, time_module, current_timestamp, previous_status,
                   previous_error, response, cycle, sent, prev, cur, fn>>

\* lines 138-141
StartupOk ==
    /\ pc = "start"
    /\ check_tokens(tokens)
    /\ time_module.has_timedelta
    /\ current_timestamp' = time_module.value
    /\ previous_status' = NoneVal
    /\ previous_error' = NoneErr
    /\ pc' = "fetch"
    /\ UNCHANGED <<tokens, time_module, response, exitError, cycle, sent, prev,
                   cur, fn>>

\* line 145, get_api_answer returns
FetchOk ==
    /\ pc = "fetch"
    /\ cycle < MaxCycles
    /\ \E http \in HttpOutcomes :
        LET r == get_api_answer(current_timestamp, http) IN
        /\ r.exc = NoExc
        /\ response' = r.value
        /\ cur' = [cur EXCEPT !.fetch = "ok", !.from_date = current_timestamp,
                              !.response = r.value,
                              !.statusBefore = previous_status,
                              !.errorBefore = previous_error]
    /\ cycle' = cycle + 1
    /\ pc' = "process"
    /\ UNCHANGED <<tokens, time_module, current_timestamp, previous_status,
                   previous_error, exitError, sent, prev, fn>>

\* lines 145-152, get_api_answer raises: the handler runs when the clause
\* 'except exceptions.IncorrectAPIResponseException' matches, otherwise the
\* exception leaves main
FetchFail ==
    /\ pc = "fetch"
    /\ cycle < MaxCycles
    /\ \E http \in HttpOutcomes, ch \in ChannelOutcomes :
        LET r == get_api_answer(current_timestamp, http)
            e == r.exc
            started == [cur EXCEPT !.fetch = "fail", !.from_date = current_timestamp,
                                   !.fetchExc = r.exc,
                                   !.statusBefore = previous_status,
                                   !.errorBefore = previous_error]
        IN
        /\ e # NoExc
        /\ IF Catches("IncorrectAPIResponseException", e)
           THEN LET changed == PyStr(e) # previous_error
                    sm == send_message(ch, PyStr(e))
                    snd == IF changed
                           THEN <<SendRec("error", NoneVal, PyStr(e), sm)>>
                           ELSE <<>>
                IN  /\ previous_error' = IF changed THEN PyStr(e) ELSE previous_error
                    /\ sent' = sent \o snd
                    /\ cur' = [started EXCEPT !.caught = e, !.sends = snd]
                    /\ IF changed /\ sm.exc # NoExc
                       THEN pc' = "terminated" /\ exitError' = sm.exc
                       ELSE pc' = "sleep" /\ exitError' = exitError
           ELSE /\ pc' = "terminated"
                /\ exitError' = e
                /\ cur' = started
                /\ UNCHANGED <<previous_error, sent>>
    /\ cycle' = cycle + 1
    /\ UNCHANGED <<tokens, time_module, current_timestamp, previous_status,
                   response, prev, fn>>

\* lines 153-171 up to the sleep: validate, compare, format, notify
ProcessCycle ==
    /\ pc = "process"
    /\ \E ch1 \in ChannelOutcomes, ch2 \in ChannelOutcomes :
        LET b == CycleBody(response, previous_status, previous_error, ch1, ch2) IN
        /\ previous_status' = b.previous_status
        /\ previous_error' = b.previous_error
        /\ sent' = sent \o b.sends
        /\ cur' = [cur EXCEPT !.processed = TRUE, !.caught = b.caught,
                              !.sends = b.sends]
        /\ IF b.uncaught # NoExc
           THEN pc' = "terminated" /\ exitError' = b.uncaught
           ELSE pc' = "sleep" /\ exitError' = exitError
    /\ UNCHANGED <<tokens, time_module, current_timestamp, response, cycle, prev,
                   fn>>

Sleep_advancesTimestamp ==
    /\ pc = "sleep"
    /\ prev' = [cur EXCEPT !.slept = cur.slept + TELEGRAM_RETRY_TIME]
    /\ cur' = NoCycle
    /\ pc' = "fetch"
    /\ current_timestamp' = current_timestamp + TELEGRAM_RETRY_TIME
    /\ UNCHANGED <<tokens, time_module, previous_status,
                   previous_error, response, exitError, cycle, sent, fn>>

\* time.sleep(TELEGRAM_RETRY_TIME) of lines 151, 163 and 171, then the next
\* iteration of 'while True'
Sleep ==
    /\ pc = "sleep"
    /\ prev' = [cur EXCEPT !.slept = cur.slept + TELEGRAM_RETRY_TIME]
    /\ cur' = NoCycle
    /\ pc' = "fetch"
    /\ UNCHANGED <<tokens, time_module, current_timestamp, previous_status,
                   previous_error, response, exitError, cycle, sent, fn>>

Next ==
    \/ StartupMissingToken
    \/ StartupTimedeltaFails
    \/ StartupOk
    \/ FetchOk
    \/ FetchFail
    \/ ProcessCycle
    \/ Sleep

Spec == Init /\ [][Next]_vars

\* ------------------------------------------- the pure functions on their own
FnInputs ==
    {[op |-> "check_response", arg |-> p, done |-> FALSE, result |-> Ok(<<>>)] :
        p \in AllPayloads}
    \cup {[op |-> "parse_status", arg |-> h, done |-> FALSE, result |-> Ok(<<>>)] :
        h \in {i \in Items : i.t = "dict"}}

InitFn ==
    /\ pc = "fn"
    /\ tokens = [practicum_token |-> "set", telegram_token |-> "set",
                 telegram_chat_id |-> "set"]
    /\ time_module \in {m \in TimeModules : m.has_timedelta}
    /\ current_timestamp = 0
    /\ previous_status = NoneVal
    /\ previous_error = NoneErr
    /\ response = NoPayload
    /\ exitError = NoExc
    /\ cycle = 0
    /\ sent = <<>>
    /\ prev = NoCycle
    /\ cur = NoCycle
    /\ fn \in FnInputs

ApplyCheckResponse ==
    /\ pc = "fn"
    /\ fn.op = "check_response"
    /\ ~fn.done
    /\ fn' = [fn EXCEPT !.done = TRUE, !.result = check_response(fn.arg)]
    /\ UNCHANGED <<pc, tokens, time_module, current_timestamp, previous_status,
                   previous_error, response, exitError, cycle, sent, prev, cur>>

ApplyParseStatus ==
    /\ pc = "fn"
    /\ fn.op = "parse_status"
    /\ ~fn.done
    /\ fn' = [fn EXCEPT !.done = TRUE, !.result = parse_status(fn.arg)]
    /\ UNCHANGED <<pc, tokens, time_module, current_timestamp, previous_status,
                   previous_error, response, exitError, cycle, sent, prev, cur>>

NextFn == ApplyCheckResponse \/ ApplyParseStatus

SpecFn == InitFn /\ [][NextFn]_vars

\* ==================================================================== claims
\* the payload has a first submission that is a record
HasFirst(payload) ==
    /\ payload.t = "dict"
    /\ payload.has
    /\ payload.hw.t = "list"
    /\ Len(payload.hw.items) >= 1
    /\ payload.hw.items[1].t = "dict"

FirstStatus(payload) == payload.hw.items[1].status

IsStatusSend(s) == s.kind = "status"
IsErrorSend(s) == s.kind = "error"
FailedSend(c) == \E i \in 1..Len(c.sends) : ~c.sends[i].delivered

\* C1: when two consecutive cycles both fetch successfully and the first
\* submission carries the same status in both, the second cycle attempts no
\* notification send.
C1_SameStatusNoResend ==
    ( /\ prev.fetch = "ok" /\ cur.fetch = "ok" /\ cur.processed
      /\ HasFirst(prev.response) /\ HasFirst(cur.response)
      /\ FirstStatus(prev.response) = FirstStatus(cur.response) )
        => cur.sends = <<>>

C1_Witness ==
    /\ prev.fetch = "ok" /\ cur.fetch = "ok" /\ cur.processed
    /\ HasFirst(prev.response) /\ HasFirst(cur.response)
    /\ FirstStatus(prev.response) = "reviewing"
    /\ FirstStatus(cur.response) = "reviewing"
    /\ Len(prev.sends) = 1 /\ prev.sends[1].kind = "status"
    /\ cur.sends = <<>>

\* C2: the process never exits because of a recoverable error: no exception
\* raised by get_api_answer, check_response or parse_status leaves main.
C2_NoExitOnRecoverableError ==
    pc = "terminated"
        => exitError.raisedBy \notin {"get_api_answer", "check_response", "parse_status"}

\* C3: on a fetch failure the loop sends a notification exactly when the error
\* text differs from last_seen_error, and afterwards last_seen_error is that
\* text.
C3_FetchErrorDedup ==
    cur.fetch = "fail"
        => /\ previous_error = PyStr(cur.fetchExc)
           /\ (Len(cur.sends) = 1) <=> (PyStr(cur.fetchExc) # cur.errorBefore)

\* C4: when one of the three credentials is absent, main ends with the
\* missing-credential error before the loop: no fetch and no send happens.
C4_MissingCredentialStopsStartup ==
    (\E key \in DOMAIN tokens : tokens[key] = NoneVal)
        => /\ cycle = 0
           /\ sent = <<>>
           /\ pc \in {"start", "terminated"}
           /\ pc = "terminated" => exitError.cls = "MissingRequiredTokenException"

C4_Witness ==
    /\ tokens.practicum_token # NoneVal
    /\ tokens.telegram_token # NoneVal
    /\ tokens.telegram_chat_id = NoneVal
    /\ time_module.has_timedelta
    /\ pc = "terminated"
    /\ exitError.cls = "MissingRequiredTokenException"

\* C5 (as claimed): over a whole run the chat receives at most one status
\* notification for each distinct status value.
C5_OncePerStatusValue ==
    \A i, j \in 1..Len(sent) :
        ( /\ i < j
          /\ IsStatusSend(sent[i]) /\ IsStatusSend(sent[j])
          /\ sent[i].delivered /\ sent[j].delivered )
            => sent[i].status # sent[j].status

\* C5 (amended): a cycle attempts at most one status notification, and only
\* for a status that differs from last_seen_status as it was when the cycle
\* began, which then becomes last_seen_status.
C5_OncePerConsecutiveStatus ==
    cur.processed
        => LET ss == SelectSeq(cur.sends, IsStatusSend) IN
           /\ Len(ss) <= 1
           /\ \A i \in 1..Len(ss) :
                /\ ss[i].status # cur.statusBefore
                /\ ss[i].status = previous_status

C5_Witness ==
    /\ cur.processed
    /\ Len(cur.sends) = 1 /\ cur.sends[1].kind = "status"
    /\ cur.sends[1].status = "reviewing"
    /\ cur.statusBefore = "approved"
    /\ \E i \in 1..(Len(sent) - 1) :
        IsStatusSend(sent[i]) /\ sent[i].status = "reviewing"

\* C6 (as claimed): over a whole run the chat receives at most one error
\* notification for each distinct error text.
C6_OncePerErrorText ==
    \A i, j \in 1..Len(sent) :
        ( /\ i < j
          /\ IsErrorSend(sent[i]) /\ IsErrorSend(sent[j])
          /\ sent[i].delivered /\ sent[j].delivered )
            => sent[i].text # sent[j].text

\* C6 (amended): no error notification repeats the text of the error
\* notification attempted immediately before it.
C6_NoRepeatOfPrecedingError ==
    LET es == SelectSeq(sent, IsErrorSend) IN
    \A i \in 1..(Len(es) - 1) : es[i].text # es[i + 1].text

C6_Witness ==
    LET es == SelectSeq(sent, IsErrorSend) IN
    /\ Len(es) = 3
    /\ es[1].text = es[3].text
    /\ es[1].text # es[2].text

\* C7: a send that fails in the channel raises nothing into the loop: the
\* cycle goes on to its sleep, sleeps the fixed interval, and control returns
\* to the fetch of the next cycle.
C7_FailedSendDoesNotStopLoop ==
    /\ FailedSend(cur)
        => /\ pc = "sleep"
           /\ exitError = NoExc
           /\ cur.caught.raisedBy # "send_message"
    /\ FailedSend(prev)
        => /\ prev.slept = TELEGRAM_RETRY_TIME
           /\ exitError.raisedBy # "send_message"
           /\ pc = "fetch" \/ cur.fetch # "none"

C7_Witness ==
    /\ FailedSend(prev)
    /\ cur.fetch = "ok"
    /\ \E i \in 1..Len(sent) : IsStatusSend(sent[i]) /\ ~sent[i].delivered
    /\ \E i \in 1..Len(sent) : IsErrorSend(sent[i]) /\ ~sent[i].delivered

\* C8: check_response fails with CheckResponseException for a mapping without
\* the key 'homeworks' and for an empty 'homeworks' list, and returns a
\* non-empty 'homeworks' list unchanged.
C8_CheckResponseKeyAndList ==
    (fn.op = "check_response" /\ fn.done)
        => LET p == fn.arg
               r == fn.result
           IN  /\ (p.t = "dict" /\ ~p.has)
                    => r.exc.cls = "CheckResponseException" /\ r.value = <<>>
               /\ (p.t = "dict" /\ p.has /\ p.hw.t = "list" /\ p.hw.items = <<>>)
                    => r.exc.cls = "CheckResponseException" /\ r.value = <<>>
               /\ (p.t = "dict" /\ p.has /\ p.hw.t = "list" /\ p.hw.items # <<>>)
                    => r.exc = NoExc /\ r.value = p.hw.items

C8_Witness ==
    /\ fn.op = "check_response" /\ fn.done
    /\ fn.result.exc = NoExc
    /\ Len(fn.result.value) = 2
    /\ fn.result.value[1] = Submission("hw1", "approved")
    /\ fn.result.value[2] = Submission("hw1", "rejected")

\* C9: check_response fails with CheckResponseException for a payload that is
\* not a mapping and for a 'homeworks' value that is not a list.
C9_ShapeErrorForWrongTypes ==
    ( /\ fn.op = "check_response" /\ fn.done
      /\ \/ fn.arg.t # "dict"
         \/ fn.arg.has /\ fn.arg.hw.t # "list" )
        => fn.result.exc.cls = "CheckResponseException"

\* C10: parse_status returns a text holding the name and exactly the verdict
\* of HOMEWORK_VERDICTS for a record with a name and a recognised status, and
\* fails without a text for every other record.
Contains(text, part) == \E i \in 1..Len(text) : text[i] = part

C10_ParseStatus ==
    (fn.op = "parse_status" /\ fn.done)
        => LET h == fn.arg
               r == fn.result
           IN  IF h.name # Absent /\ h.status \in {"approved", "reviewing", "rejected"}
               THEN /\ r.exc = NoExc
                    /\ Contains(r.value, h.name)
                    /\ \A s \in DOMAIN HOMEWORK_VERDICTS :
                        Contains(r.value, HOMEWORK_VERDICTS[s]) <=> s = h.status
               ELSE r.exc # NoExc /\ r.value = <<>>

C10_Witness ==
    /\ fn.op = "parse_status" /\ fn.done
    /\ fn.arg = Submission("hw1", "reviewing")
    /\ fn.result.exc = NoExc
    /\ fn.result.value[2] = "hw1"
    /\ fn.result.value[4] = "Rabota vzyata na proverku revyuerom."

\* the first submission of a payload that has one
First(payload) == payload.hw.items[1]

StatusSends(c) == SelectSeq(c.sends, IsStatusSend)
ErrorSends(c) == SelectSeq(c.sends, IsErrorSend)

\* the first submission carries a recognised status that differs from
\* last_seen_status as the cycle found it
RecognisedChange(c) ==
    /\ c.fetch = "ok" /\ c.processed
    /\ HasFirst(c.response)
    /\ FirstStatus(c.response) \in DOMAIN HOMEWORK_VERDICTS
    /\ FirstStatus(c.response) # c.statusBefore

\* C11 (as claimed): in every cycle that fetches and validates successfully and
\* whose first submission has a recognised status different from
\* last_seen_status, exactly one send is attempted, its text is parse_status of
\* that submission, and last_seen_status is that status afterwards.
C11_ChangeNotifiedOnce ==
    RecognisedChange(cur)
        => /\ Len(cur.sends) = 1
           /\ cur.sends[1].text = parse_status(First(cur.response)).value
           /\ previous_status = FirstStatus(cur.response)

\* C11 (amended): the same, for a first submission that also has a name.
C11_NamedChangeNotifiedOnce ==
    (RecognisedChange(cur) /\ First(cur.response).name # Absent)
        => /\ Len(cur.sends) = 1
           /\ cur.sends[1].kind = "status"
           /\ cur.sends[1].text = parse_status(First(cur.response)).value
           /\ cur.sends[1].text # <<>>
           /\ previous_status = FirstStatus(cur.response)

C11_Witness ==
    /\ RecognisedChange(cur)
    /\ cycle = 1
    /\ cur.statusBefore = NoneVal
    /\ First(cur.response) = Submission("hw1", "reviewing")
    /\ Len(cur.sends) = 1
    /\ Contains(cur.sends[1].text, "hw1")
    /\ Contains(cur.sends[1].text, "Rabota vzyata na proverku revyuerom.")
    /\ previous_status = "reviewing"

\* C12: in every cycle that fetches successfully and then fails in validation
\* or formatting, a diagnostic is sent exactly when the error text differs from
\* last_seen_error, it carries that text, and last_seen_error is that text
\* afterwards; an error equal to the one reported before is not notified.
C12_ProcessErrorDedup ==
    (cur.fetch = "ok" /\ cur.processed /\ cur.caught # NoExc)
        => LET text == PyStr(cur.caught)
               es == ErrorSends(cur)
           IN  /\ Len(es) = (IF text # cur.errorBefore THEN 1 ELSE 0)
               /\ \A i \in 1..Len(es) :
                    es[i].text = <<"Sboy v rabote programmy: ">> \o text
               /\ previous_error = text
               /\ text = cur.errorBefore => cur.sends = <<>>

C12_Witness ==
    /\ cur.fetch = "ok" /\ cur.processed
    /\ cur.caught.raisedBy = "check_response"
    /\ PyStr(cur.caught) = cur.errorBefore
    /\ cur.sends = <<>>
    /\ prev.caught = cur.caught
    /\ Len(prev.sends) = 1 /\ prev.sends[1].kind = "error"

\* C13: every cycle, whatever its outcome, sleeps the fixed interval exactly
\* once: a cycle that has called get_api_answer is on its way to the sleep, and
\* a finished cycle has slept TELEGRAM_RETRY_TIME once.
C13_EveryCycleSleepsOnce ==
    /\ cur.fetch # "none" => pc \in {"process", "sleep"}
    /\ prev.fetch # "none" => prev.slept = TELEGRAM_RETRY_TIME

\* C14: with all three credentials present startup does not fail: main does
\* not end before its first call of get_api_answer.
C14_StartupReachesFirstFetch ==
    (\A key \in DOMAIN tokens : tokens[key] # NoneVal)
        => ~(pc = "terminated" /\ cycle = 0)

\* C15: last_seen_status is assigned before the status is formatted: when
\* parse_status fails in a cycle, last_seen_status is the status of that
\* cycle's first submission, and a following cycle with the same payload sends
\* nothing and reports no error.
C15_StatusRecordedBeforeFormat ==
    /\ (cur.processed /\ cur.caught.raisedBy = "parse_status")
        => /\ previous_status = GetStatus(First(cur.response))
           /\ previous_status # cur.statusBefore
    /\ ( /\ prev.caught.raisedBy = "parse_status"
         /\ cur.processed
         /\ cur.response = prev.response )
        => /\ cur.sends = <<>>
           /\ cur.caught = NoExc
           /\ previous_error = cur.errorBefore
           /\ pc = "sleep"

C15_Witness ==
    /\ prev.caught.raisedBy = "parse_status"
    /\ First(prev.response) = Submission("hw1", "unknown")
    /\ prev.statusBefore = "reviewing"
    /\ cur.processed
    /\ cur.response = prev.response
    /\ cur.sends = <<>>
    /\ cur.caught = NoExc
    /\ previous_status = "unknown"

\* the sends of the run that precede the cycle under way
SentBefore == SubSeq(sent, 1, Len(sent) - Len(cur.sends))

LastOf(seq) == seq[Len(seq)]

\* the diagnostic the handler sends for an error
Diagnostic(exc) == <<"Sboy v rabote programmy: ">> \o PyStr(exc)

\* a send that failed in the channel still updated the dedup state
LostSendRecorded ==
    cur.processed
        => \A i \in 1..Len(cur.sends) :
            ~cur.sends[i].delivered
                => IF cur.sends[i].kind = "status"
                   THEN previous_status = cur.sends[i].status
                   ELSE /\ cur.sends[i].text = Diagnostic(cur.caught)
                        /\ previous_error = PyStr(cur.caught)

\* C16 (as claimed): a send that fails in the channel still updates the dedup
\* state, and no later cycle of the run sends a notification for the same
\* status or the same error text again.
C16_LostNeverResent ==
    /\ LostSendRecorded
    /\ \A i, j \in 1..Len(sent) :
        (i < j /\ ~sent[i].delivered)
            => ~( /\ sent[j].kind = sent[i].kind
                  /\ sent[j].status = sent[i].status
                  /\ sent[j].text = sent[i].text )

\* C16 (amended): a send that fails in the channel still updates the dedup
\* state, and a later cycle sends nothing for the same status (the same error
\* text) as long as no different status (error text) was seen in between.
C16_LostNotResentWhileUnchanged ==
    /\ LostSendRecorded
    /\ LET sb == SelectSeq(SentBefore, IsStatusSend) IN
       ( /\ cur.processed
         /\ Len(sb) > 0 /\ ~LastOf(sb).delivered
         /\ cur.statusBefore = LastOf(sb).status
         /\ HasFirst(cur.response)
         /\ GetStatus(First(cur.response)) = LastOf(sb).status )
            => StatusSends(cur) = <<>>
    /\ LET eb == SelectSeq(SentBefore, IsErrorSend) IN
       ( /\ cur.processed
         /\ Len(eb) > 0 /\ ~LastOf(eb).delivered
         /\ cur.caught # NoExc
         /\ Diagnostic(cur.caught) = LastOf(eb).text )
            => ErrorSends(cur) = <<>>

C16_Witness ==
    /\ cycle = 3
    /\ cur.processed
    /\ Len(sent) = 2
    /\ sent[1].kind = "status" /\ sent[1].status = "reviewing" /\ ~sent[1].delivered
    /\ sent[2].kind = "error" /\ ~sent[2].delivered
    /\ HasFirst(cur.response)
    /\ First(cur.response) = Submission("hw1", "reviewing")
    /\ cur.sends = <<>>
    /\ previous_status = "reviewing"
    /\ Diagnostic(prev.caught) = sent[2].text
    /\ previous_error = PyStr(prev.caught)

\* C17: while last_seen_status is still absent, a fetched payload whose first
\* submission has no 'status' counts as unchanged: nothing is sent, no error is
\* reported, and both parts of the dedup state stay as they were.
C17_MissingStatusIsNoChange ==
    ( /\ cur.fetch = "ok" /\ cur.processed
      /\ HasFirst(cur.response)
      /\ FirstStatus(cur.response) = Absent
      /\ cur.statusBefore = NoneVal )
        => /\ cur.sends = <<>>
           /\ cur.caught = NoExc
           /\ previous_status = NoneVal
           /\ previous_error = cur.errorBefore
           /\ pc = "sleep"

C17_Witness ==
    /\ cycle = 1
    /\ cur.fetch = "ok" /\ cur.processed
    /\ HasFirst(cur.response)
    /\ First(cur.response) = Submission("hw1", Absent)
    /\ cur.statusBefore = NoneVal
    /\ cur.sends = <<>>
    /\ cur.caught = NoExc
    /\ sent = <<>>
    /\ previous_error = NoneErr

\* C18: a successful cycle does not clear last_seen_error: when a failing
\* cycle follows successful ones and its error text is the text of the last
\* error reported before, it sends nothing.
C18_ErrorKeptAcrossSuccess ==
    /\ (cur.processed /\ cur.caught = NoExc) => previous_error = cur.errorBefore
    /\ LET eb == SelectSeq(SentBefore, IsErrorSend) IN
       ( /\ prev.processed /\ prev.caught = NoExc
         /\ cur.processed /\ cur.caught # NoExc
         /\ Len(eb) > 0
         /\ LastOf(eb).text = Diagnostic(cur.caught) )
            => /\ cur.sends = <<>>
               /\ previous_error = PyStr(cur.caught)

C18_Witness ==
    /\ cycle = 3
    /\ prev.processed /\ prev.caught = NoExc
    /\ Len(prev.sends) = 1 /\ prev.sends[1].kind = "status"
    /\ cur.processed /\ cur.caught.raisedBy = "check_response"
    /\ Len(sent) = 2
    /\ sent[1].kind = "error"
    /\ sent[1].text = Diagnostic(cur.caught)
    /\ cur.sends = <<>>

\* C19: since_timestamp is set once at startup and no cycle changes it: every
\* call of get_api_answer carries the same from_date.
C19_TimestampFixed ==
    /\ pc # "start" => current_timestamp = time_module.value
    /\ cur.fetch # "none" => cur.from_date = time_module.value
    /\ (prev.fetch # "none" /\ cur.fetch # "none") => cur.from_date = prev.from_date

C19_Witness ==
    /\ cycle = 3
    /\ prev.fetch = "ok" /\ prev.caught # NoExc
    /\ cur.fetch = "ok" /\ cur.processed /\ cur.caught = NoExc
    /\ Len(cur.sends) = 1
    /\ cur.from_date = prev.from_date
    /\ cur.from_date = current_timestamp

====
